---- MODULE Spec2Model ----
(***************************************************************************)
(* Model of src/src/anomaly_detection.py: the two detectors                *)
(*   detect_type1_spike_up(r, q_up)                                        *)
(*   detect_type2_turn_patterns(r, w_pre, w_post, q_h, q_flat, q_trend)    *)
(* Both are pure functions of one series.  A series is a sequence of       *)
(* entries [t, v, na]: t the index label (timestamp), v the value, na      *)
(* TRUE when the value is missing (NaN; v is then 0 and never read).       *)
(* Values are integers; quantiles are rationals held in hundredths, and    *)
(* thresholds in thousandths, so every comparison the code makes on reals  *)
(* is made exactly here (floating-point rounding is not modelled).         *)
(***************************************************************************)
EXTENDS Integers, Sequences, FiniteSets, TLC

VARIABLES r, pc, par, out, labels, th

vars == <<r, pc, par, out, labels, th>>

\* ------------------------------------------------------------- bounds
MaxLen == 7
MonoLen == 20

\* quantiles are numerators over QDen; thresholds are numerators over Unit
QDen == 10 * 10
Unit == 10 * QDen

Vals == {-1, 0, 1}

\* ------------------------------------------------- program constants
Q_UP == 99
W_PRE == 3
W_POST == 3
Q_H == 90
Q_FLAT == 20
Q_TREND == 70
MinSpike == 5
MinExtra == 4

PatternKeys == {"down_turn_flat", "flat_turn_down", "flat_turn_up", "up_turn_flat"}

\* ------------------------------------------------------------ helpers
Abs(x) == IF x < 0 THEN -x ELSE x

Max(a, b) == IF a >= b THEN a ELSE b

Min(a, b) == IF a <= b THEN a ELSE b

RECURSIVE SumSeq(_)
SumSeq(s) == IF s = <<>> THEN 0 ELSE Head(s) + SumSeq(Tail(s))

\* s[a+1 .. b] : the Python slice s[a:b] of a 0-indexed sequence
Slice(s, a, b) == IF b <= a THEN <<>> ELSE SubSeq(s, a + 1, b)

\* pandas dropna: the entries whose value is present, index labels kept
IsPresent(e) == ~e.na

\* mutant of DropNa: fillna(0) in place of dropna, every entry kept
DropNa_fillzero(s) == [i \in 1..Len(s) |-> [t |-> s[i].t, v |-> s[i].v, na |-> FALSE]]

DropNa(s) == SelectSeq(s, IsPresent)

ValuesOf(s) == [i \in 1..Len(s) |-> s[i].v]

\* k-th order statistic (1-indexed) of a non-empty sequence of integers
SortedAt(s, k) ==
    CHOOSE x \in {s[i] : i \in 1..Len(s)} :
        /\ Cardinality({i \in 1..Len(s) : s[i] < x}) < k
        /\ Cardinality({i \in 1..Len(s) : s[i] <= x}) >= k

\* mutant of Quantile: q taken as the upper-tail fraction, position (1-q)*(n-1)
Quantile_uppertail(s, q) ==
    LET n == Len(s)
        pos == (QDen - q) * (n - 1)
        lo == pos \div QDen
        rem == pos % QDen
        a == SortedAt(s, lo + 1)
        b == SortedAt(s, Min(lo + 2, n))
    IN a * QDen + rem * (b - a)

\* Series.quantile(q), linear interpolation, times QDen.
\* position q*(n-1) = lo + rem/QDen in the 0-indexed sorted values
Quantile(s, q) ==
    LET n == Len(s)
        pos == q * (n - 1)
        lo == pos \div QDen
        rem == pos % QDen
        a == SortedAt(s, lo + 1)
        b == SortedAt(s, Min(lo + 2, n))
    IN a * QDen + rem * (b - a)

\* -------------------------------------------- detect_type1_spike_up
\* mutant of AboveThreshold: r >= th in place of r > th
AboveThreshold_geq(v, thq) == v * QDen >= thq

AboveThreshold(v, thq) == v * QDen > thq

\* mutant of detect_type1_spike_up: the length is tested before dropna
detect_type1_lenfirst(s, q_up) ==
    LET c == DropNa(s)
    IN IF Len(s) < MinSpike \/ Len(c) = 0
       THEN <<>>
       ELSE LET thq == Quantile(ValuesOf(c), q_up)
                hit(e) == AboveThreshold(e.v, thq)
                sel == SelectSeq(c, hit)
            IN [i \in 1..Len(sel) |-> sel[i].t]

detect_type1_spike_up(s, q_up) ==
    LET c == DropNa(s)
    IN IF Len(c) < MinSpike
       THEN <<>>
       ELSE LET thq == Quantile(ValuesOf(c), q_up)
                hit(e) == AboveThreshold(e.v, thq)
                sel == SelectSeq(c, hit)
            IN [i \in 1..Len(sel) |-> sel[i].t]

\* ---------------------------------------- detect_type2_turn_patterns
MinTurnLen(p) == p.w_pre + p.w_post + MinExtra

\* h = g.diff() without its undefined first entry: Diff(g)[i] = g[i+1] - g[i]
Diff(g) == [i \in 1..(Len(g) - 1) |-> g[i + 1] - g[i]]

AbsSeq(g) == [i \in 1..Len(g) |-> Abs(g[i])]

\* th_h: "inf" -> TRUE when no difference exists; otherwise the value in 1/Unit
ThH(g, p) ==
    IF Len(g) < 2
    THEN [inf |-> TRUE, x |-> 0]
    ELSE [inf |-> FALSE, x |-> 10 * Quantile(AbsSeq(Diff(g)), p.q_h)]

ThFlat(g, p) == IF Len(g) = 0 THEN 0 ELSE 10 * Quantile(AbsSeq(g), p.q_flat)

\* mutant of ThTrend: the quantile alone, never raised to th_flat * 1.1
ThTrend_noraise(g, p) == IF Len(g) = 0 THEN 0 ELSE 10 * Quantile(AbsSeq(g), p.q_trend)

\* th_trend = max(quantile, th_flat * 1.1), in 1/Unit.  ThFlat is a multiple
\* of 10, so th_flat * 1.1 = 11 * ThFlat / 10 is exact.
ThTrend(g, p) ==
    LET q == IF Len(g) = 0 THEN 0 ELSE 10 * Quantile(AbsSeq(g), p.q_trend)
    IN Max(q, (11 * ThFlat(g, p)) \div 10)

Thresholds(g, p) ==
    [th_h |-> ThH(g, p), th_flat |-> ThFlat(g, p), th_trend |-> ThTrend(g, p)]

NoThresholds == [th_h |-> [inf |-> TRUE, x |-> 0], th_flat |-> 0, th_trend |-> 0]

\* a window mean is the pair sum/len; len = 0 is the NaN mean of an empty slice
Mean(w) == [sum |-> SumSeq(w), len |-> Len(w)]

\* every comparison with a NaN mean is false, which leaves the final 'flat'
trend_label(mu, t) ==
    IF mu.len = 0 THEN "flat"
    ELSE IF Abs(mu.sum) * Unit <= t.th_flat * mu.len THEN "flat"
    ELSE IF mu.sum * Unit >= t.th_trend * mu.len THEN "up"
    ELSE IF mu.sum * Unit <= -(t.th_trend * mu.len) THEN "down"
    ELSE "flat"

\* mutant of turn_cond: the sign test alone
turn_cond_signonly(g, t, t_pos) == g[t_pos] * g[t_pos + 1] <= 0

\* mutant of turn_cond: the step test alone
turn_cond_steponly(g, t, t_pos) ==
    /\ ~t.th_h.inf
    /\ Abs(g[t_pos + 1] - g[t_pos]) * Unit >= t.th_h.x

\* g is 1-indexed here: position t_pos of the code is g[t_pos + 1]
turn_cond(g, t, t_pos) ==
    /\ g[t_pos] * g[t_pos + 1] <= 0
    /\ ~t.th_h.inf
    /\ Abs(g[t_pos + 1] - g[t_pos]) * Unit >= t.th_h.x

pre_mu(g, p, t_pos) == Mean(Slice(g, Max(0, t_pos - p.w_pre), t_pos))

post_mu(g, p, t_pos) == Mean(Slice(g, t_pos + 1, Min(Len(g), t_pos + 1 + p.w_post)))

\* labels[key].append(t) on a defaultdict(list): the key is created on first use
AppendTo(lab, key, t) ==
    IF key \in DOMAIN lab
    THEN [lab EXCEPT ![key] = Append(@, t)]
    ELSE [k \in (DOMAIN lab) \cup {key} |-> IF k = key THEN <<t>> ELSE lab[k]]

EmptyLabels == [k \in {} |-> <<>>]

\* mutant of BucketOf: a fifth key for the down -> up turn
BucketOf_fifthkey(pre_lbl, post_lbl) ==
    IF pre_lbl = "down" /\ post_lbl = "flat" THEN "down_turn_flat"
    ELSE IF pre_lbl = "flat" /\ post_lbl = "down" THEN "flat_turn_down"
    ELSE IF pre_lbl = "flat" /\ post_lbl = "up" THEN "flat_turn_up"
    ELSE IF pre_lbl = "up" /\ post_lbl = "flat" THEN "up_turn_flat"
    ELSE IF pre_lbl = "down" /\ post_lbl = "up" THEN "down_turn_up"
    ELSE "none"

\* mutant of BucketOf: the two flat -> trend keys exchanged
BucketOf_swapped(pre_lbl, post_lbl) ==
    IF pre_lbl = "down" /\ post_lbl = "flat" THEN "down_turn_flat"
    ELSE IF pre_lbl = "flat" /\ post_lbl = "down" THEN "flat_turn_up"
    ELSE IF pre_lbl = "flat" /\ post_lbl = "up" THEN "flat_turn_down"
    ELSE IF pre_lbl = "up" /\ post_lbl = "flat" THEN "up_turn_flat"
    ELSE "none"

BucketOf(pre_lbl, post_lbl) ==
    IF pre_lbl = "down" /\ post_lbl = "flat" THEN "down_turn_flat"
    ELSE IF pre_lbl = "flat" /\ post_lbl = "down" THEN "flat_turn_down"
    ELSE IF pre_lbl = "flat" /\ post_lbl = "up" THEN "flat_turn_up"
    ELSE IF pre_lbl = "up" /\ post_lbl = "flat" THEN "up_turn_flat"
    ELSE "none"

\* one iteration of the for loop at position t_pos.  The isna test of line 73
\* never skips: g holds no missing value after dropna and h is defined from
\* position 1 on.
LoopBody(c, g, p, t, t_pos, lab) ==
    IF ~turn_cond(g, t, t_pos)
    THEN lab
    ELSE LET key == BucketOf(trend_label(pre_mu(g, p, t_pos), t),
                             trend_label(post_mu(g, p, t_pos), t))
         IN IF key = "none" THEN lab ELSE AppendTo(lab, key, c[t_pos + 1].t)

\* for t_pos in range(1, len(r) - 1)
RECURSIVE Loop(_, _, _, _, _, _)
Loop(c, g, p, t, t_pos, lab) ==
    IF t_pos >= Len(c) - 1
    THEN lab
    ELSE Loop(c, g, p, t, t_pos + 1, LoopBody(c, g, p, t, t_pos, lab))

\* mutant of detect_type2_turn_patterns: the length is tested before dropna
detect_type2_lenfirst(s, p) ==
    LET c == DropNa(s)
    IN IF Len(s) < MinTurnLen(p) \/ Len(c) < 3
       THEN EmptyLabels
       ELSE LET g == ValuesOf(c)
            IN Loop(c, g, p, Thresholds(g, p), 1, EmptyLabels)

detect_type2_turn_patterns(s, p) ==
    LET c == DropNa(s)
    IN IF Len(c) < MinTurnLen(p)
       THEN EmptyLabels
       ELSE LET g == ValuesOf(c)
            IN Loop(c, g, p, Thresholds(g, p), 1, EmptyLabels)

\* ------------------------------------------------------------ inputs
Cells == [v : Vals, na : {FALSE}] \cup {[v |-> 0, na |-> TRUE]}

Stamp(f) == [i \in 1..Len(f) |-> [t |-> i, v |-> f[i].v, na |-> f[i].na]]

SeriesSet == UNION {[1..n -> Cells] : n \in 0..MaxLen}

SpikeQuantiles == {0, 50, Q_UP, QDen}

DefaultParams ==
    [w_pre |-> W_PRE, w_post |-> W_POST, q_h |-> Q_H, q_flat |-> Q_FLAT, q_trend |-> Q_TREND]

TurnParams ==
    {DefaultParams}
    \cup {[DefaultParams EXCEPT !.w_pre = w[1], !.w_post = w[2]] :
            w \in {<<1, 1>>, <<1, 2>>, <<2, 1>>, <<0, 1>>}}
    \cup [w_pre : {1}, w_post : {1}, q_h : {50}, q_flat : {50}, q_trend : {50}]

NoParams == [w_pre |-> 0, w_post |-> 0, q_h |-> 0, q_flat |-> 0, q_trend |-> 0, q_up |-> 0]

\* ------------------------------------------------------- state machine
Init ==
    /\ \E f \in SeriesSet : r = Stamp(f)
    /\ pc = "ready"
    /\ par = NoParams
    /\ out = <<>>
    /\ labels = EmptyLabels
    /\ th = NoThresholds

CallSpike ==
    /\ pc = "ready"
    /\ \E q \in SpikeQuantiles :
        /\ par' = [NoParams EXCEPT !.q_up = q]
        /\ out' = detect_type1_spike_up(r, q)
    /\ pc' = "spike_done"
    /\ UNCHANGED <<r, labels, th>>

TurnsStep(p) ==
    /\ par' = [w_pre |-> p.w_pre, w_post |-> p.w_post, q_h |-> p.q_h,
               q_flat |-> p.q_flat, q_trend |-> p.q_trend, q_up |-> 0]
    /\ labels' = detect_type2_turn_patterns(r, p)
    /\ th' = IF Len(DropNa(r)) < MinTurnLen(p)
             THEN NoThresholds
             ELSE Thresholds(ValuesOf(DropNa(r)), p)
    /\ pc' = "turns_done"
    /\ UNCHANGED <<r, out>>

CallTurns ==
    /\ pc = "ready"
    /\ \E p \in TurnParams : TurnsStep(p)

Next == CallSpike \/ CallTurns

Spec == Init /\ [][Next]_vars

\* --------------------------------------------- strictly increasing runs
\* A strictly increasing series of MonoLen present points: unit steps from
\* `start`, with one step of size `jump` after position j.
MonoStarts == (0 - 22)..3

MonoJumps == {1, 3, 101}

MonoSeries(start, j, jump) ==
    [i \in 1..MonoLen |->
        [t |-> i, v |-> start + (i - 1) + (IF i > j THEN jump - 1 ELSE 0), na |-> FALSE]]

MonoInit ==
    /\ \E start \in MonoStarts, j \in 1..(MonoLen - 1), jump \in MonoJumps :
        r = MonoSeries(start, j, jump)
    /\ pc = "ready"
    /\ par = NoParams
    /\ out = <<>>
    /\ labels = EmptyLabels
    /\ th = NoThresholds

CallTurnsDefault ==
    /\ pc = "ready"
    /\ TurnsStep(DefaultParams)

MonoNext == CallTurnsDefault

SpecMono == MonoInit /\ [][MonoNext]_vars

\* =================================================== statements checked
\* The definitions below state the claims; they are written from the
\* specification's words and do not use DropNa, LoopBody or Loop.  An interior
\* position t of the specification (0-indexed, 1 <= t <= n-2) is entry t + 1 of
\* the cleaned series c, so g[t-1] is c[t].v and g[t] is c[t + 1].v.

\* the series with its missing entries removed, labels kept
Kept(e) == e.na = FALSE

Removed(s) == SelectSeq(s, Kept)

NumPresent(s) == Cardinality({i \in 1..Len(s) : ~s[i].na})

MissingStamps(s) == {s[i].t : i \in {k \in 1..Len(s) : s[k].na}}

Stamps(q) == {q[i] : i \in 1..Len(q)}

\* the labels of the entries of s at the positions P (1-indexed), in series order
PickTs(s, P) ==
    LET idx == [i \in 1..Len(s) |-> i]
        keep(i) == i \in P
        sel == SelectSeq(idx, keep)
    IN [j \in 1..Len(sel) |-> s[sel[j]].t]

\* a bucket as a reader of the mapping sees it: an absent key reads as empty
Bucket(lab, k) == IF k \in DOMAIN lab THEN lab[k] ELSE <<>>

AllBucketsEmpty(lab) == \A k \in PatternKeys : Bucket(lab, k) = <<>>

RECURSIVE SumOver(_, _)
SumOver(g, S) ==
    IF S = {} THEN 0
    ELSE LET i == CHOOSE x \in S : TRUE IN g[i] + SumOver(g, S \ {i})

SpikeDone == pc = "spike_done"

TurnsDone == pc = "turns_done"

\* the cleaned series c of the run; g[i], 0-indexed as in the specification,
\* is c[i + 1].v, and n is Len(c)
Cleaned == Removed(r)

Sufficient == NumPresent(r) >= par.w_pre + par.w_post + MinExtra

Interior(c) == 1..(Len(c) - 2)

\* the q_up-quantile of the present values, times QDen
SpikeThreshold(q) == Quantile(ValuesOf(Cleaned), q)

\* positions (1-indexed, in r) of the present points strictly above the threshold
SpikePositions(q) ==
    IF NumPresent(r) = 0 THEN {}
    ELSE LET thq == SpikeThreshold(q)
         IN {i \in 1..Len(r) : ~r[i].na /\ r[i].v * QDen > thq}

TurnAt(c, t) ==
    /\ c[t].v * c[t + 1].v <= 0
    /\ ~th.th_h.inf
    /\ Abs(c[t + 1].v - c[t].v) * Unit >= th.th_h.x

PreWindow(c, t) == {i \in 0..(Len(c) - 1) : Max(0, t - par.w_pre) <= i /\ i < t}

PostWindow(c, t) == {i \in 0..(Len(c) - 1) : t < i /\ i < Min(Len(c), t + 1 + par.w_post)}

WindowMean(c, S) == [sum |-> SumOver(ValuesOf(c), {i + 1 : i \in S}), len |-> Cardinality(S)]

PreLabel(c, t) == trend_label(WindowMean(c, PreWindow(c, t)), th)

PostLabel(c, t) == trend_label(WindowMean(c, PostWindow(c, t)), th)

PatternOf(k) ==
    CASE k = "down_turn_flat" -> <<"down", "flat">>
      [] k = "flat_turn_down" -> <<"flat", "down">>
      [] k = "flat_turn_up" -> <<"flat", "up">>
      [] k = "up_turn_flat" -> <<"up", "flat">>

\* the label pair of the turn at interior position t, "none" where no turn is
PairAt(c, t) == IF TurnAt(c, t) THEN <<PreLabel(c, t), PostLabel(c, t)>> ELSE <<"none", "none">>

\* ------------------------------------------------------------------ C1
\* C1 as stated: for every series and quantile the result of
\* detect_type1_spike_up is exactly the labels of the present points strictly
\* above the interpolated quantile of the present values, in series order.
C1_AsStated == SpikeDone => out = PickTs(r, SpikePositions(par.q_up))

\* C1 amended: with at least 5 present points the result is exactly the labels
\* of the present points strictly above the quantile, in series order; and for
\* every series no returned label belongs to a point at or below the threshold
\* (a point tying the threshold, the maximum included, is never returned).
C1_ExactAboveThreshold ==
    SpikeDone =>
        /\ NumPresent(r) >= MinSpike => out = PickTs(r, SpikePositions(par.q_up))
        /\ Stamps(out) \subseteq {r[i].t : i \in SpikePositions(par.q_up)}

\* a run on 5 or more present points that returns something and leaves out a
\* present point whose value ties the threshold
C1_Witness ==
    /\ SpikeDone
    /\ NumPresent(r) >= MinSpike
    /\ out # <<>>
    /\ \E i \in 1..Len(r) :
        /\ ~r[i].na
        /\ r[i].v * QDen = SpikeThreshold(par.q_up)
        /\ r[i].t \notin Stamps(out)

\* ------------------------------------------------------------------ C5
\* C5: the result is monotone in the quantile: against the result of the run,
\* every larger quantile gives a subset of it with no more labels, and every
\* smaller quantile gives a superset with no fewer.
C5_MonotoneInQuantile ==
    SpikeDone =>
        \A q \in SpikeQuantiles :
            LET other == detect_type1_spike_up(r, q)
            IN /\ q >= par.q_up => (Stamps(other) \subseteq Stamps(out) /\ Len(other) <= Len(out))
               /\ q <= par.q_up => (Stamps(out) \subseteq Stamps(other) /\ Len(out) <= Len(other))

\* a run whose result strictly shrinks, without emptying, under a larger quantile
C5_Witness ==
    /\ SpikeDone
    /\ \E q \in SpikeQuantiles :
        /\ q > par.q_up
        /\ detect_type1_spike_up(r, q) # <<>>
        /\ Len(detect_type1_spike_up(r, q)) < Len(out)

\* ------------------------------------------------------------------ C7
\* C7: with fewer than 5 present points detect_type1_spike_up returns the empty
\* sequence for every quantile; missing entries do not count toward the 5.
C7_FewPointsEmpty == (SpikeDone /\ NumPresent(r) < MinSpike) => out = <<>>

\* a series of 5 or more entries, fewer than 5 of them present, some of them
\* above the quantile, on which the result is empty
C7_Witness ==
    /\ SpikeDone
    /\ Len(r) >= MinSpike
    /\ NumPresent(r) < MinSpike
    /\ SpikePositions(par.q_up) # {}
    /\ out = <<>>

\* ------------------------------------------------------------------ C6
\* C6: with fewer than w_pre + w_post + 4 present points every one of the four
\* buckets of detect_type2_turn_patterns is empty; missing entries do not count.
C6_ShortSeriesEmpty == (TurnsDone /\ NumPresent(r) < MinTurnLen(par)) => AllBucketsEmpty(labels)

\* a series long enough by its entries but not by its present points, on which
\* the same entries with 0 for the missing values would have been given a turn
C6_Witness ==
    /\ TurnsDone
    /\ Len(r) >= MinTurnLen(par)
    /\ NumPresent(r) < MinTurnLen(par)
    /\ AllBucketsEmpty(labels)
    /\ ~AllBucketsEmpty(detect_type2_turn_patterns(DropNa_fillzero(r), par))

C3_OnlyTurnsOnce ==
    TurnsDone =>
        /\ LET c == Cleaned
           IN \A k \in DOMAIN labels : \A j \in 1..Len(labels[k]) :
                \E t \in Interior(c) : c[t + 1].t = labels[k][j] /\ TurnAt(c, t)
        /\ \A k \in DOMAIN labels : \A i, j \in 1..Len(labels[k]) :
            labels[k][i] = labels[k][j] => i = j
        /\ \A k1, k2 \in DOMAIN labels :
            k1 # k2 => Stamps(labels[k1]) \cap Stamps(labels[k2]) = {}

\* a run that records a turn and passes over an interior position whose sign
\* test holds and whose step is below th_h
C3_Witness ==
    /\ TurnsDone
    /\ ~AllBucketsEmpty(labels)
    /\ LET c == Cleaned
       IN \E t \in Interior(c) : c[t].v * c[t + 1].v <= 0 /\ ~TurnAt(c, t)

\* ------------------------------------------------------------------ C8
\* C8: each detector gives on a series with missing values the result it gives
\* on the series with those entries removed, and no label of a missing value
\* is in any output.
C8_MissingRemoved ==
    /\ SpikeDone =>
        /\ out = detect_type1_spike_up(Removed(r), par.q_up)
        /\ Stamps(out) \cap MissingStamps(r) = {}
    /\ TurnsDone =>
        /\ labels = detect_type2_turn_patterns(Removed(r), par)
        /\ \A k \in DOMAIN labels : Stamps(labels[k]) \cap MissingStamps(r) = {}

\* a turn recorded at a point whose predecessor in the input is missing, so
\* that its difference is taken across the gap
C8_Witness ==
    /\ TurnsDone
    /\ \E k \in DOMAIN labels : \E i \in 2..Len(r) :
        /\ r[i - 1].na
        /\ r[i].t \in Stamps(labels[k])

\* ------------------------------------------------------------------ C9
\* C9 as stated: past the length check th_trend >= 1.1 * th_flat and
\* th_trend > th_flat, also when both quantiles of |g| are 0.
C9_AsStated ==
    (TurnsDone /\ Sufficient) =>
        /\ 10 * th.th_trend >= 11 * th.th_flat
        /\ th.th_trend > th.th_flat

\* C9 amended: past the length check th_trend >= 1.1 * th_flat; th_trend is
\* strictly greater than th_flat whenever th_flat > 0; when th_flat = 0 the
\* threshold th_trend is the q_trend quantile of |g| and may be 0 too.  A
\* window mean satisfies |mu| <= th_flat and |mu| >= th_trend only when both
\* thresholds and mu are 0, and it is then labelled flat.
C9_TrendAboveFlat ==
    (TurnsDone /\ Sufficient) =>
        /\ 10 * th.th_trend >= 11 * th.th_flat
        /\ th.th_flat >= 0
        /\ th.th_flat > 0 => th.th_trend > th.th_flat
        /\ LET c == Cleaned
           IN \A t \in Interior(c) : \A w \in {PreWindow(c, t), PostWindow(c, t)} :
            LET mu == WindowMean(c, w)
            IN (/\ mu.len > 0
                /\ Abs(mu.sum) * Unit <= th.th_flat * mu.len
                /\ Abs(mu.sum) * Unit >= th.th_trend * mu.len)
               => (mu.sum = 0 /\ th.th_trend = 0 /\ trend_label(mu, th) = "flat")

\* a run in which the q_trend quantile lies below 1.1 * th_flat and th_trend
\* is raised to it
C9_Witness ==
    /\ TurnsDone
    /\ Sufficient
    /\ th.th_flat > 0
    /\ 10 * th.th_trend = 11 * th.th_flat
    /\ 10 * Quantile(AbsSeq(ValuesOf(Cleaned)), par.q_trend) < th.th_trend

\* ----------------------------------------------------------------- C10
\* C10: each bucket holds, in series order, exactly the labels of the interior
\* positions where the turn condition holds and the labels of the window means
\* before and after are the bucket's pair; a turn with any other pair
\* (down-up, up-down, flat-flat, up-up, down-down) is in no bucket.
C10_BucketsByLabelPair ==
    (TurnsDone /\ Sufficient) =>
        LET c == Cleaned
            pair == [t \in Interior(c) |-> PairAt(c, t)]
        IN /\ \A k \in PatternKeys :
                Bucket(labels, k) = PickTs(c, {t + 1 : t \in {u \in Interior(c) : pair[u] = PatternOf(k)}})
           /\ \A t \in Interior(c) :
                (TurnAt(c, t) /\ \A k \in PatternKeys : pair[t] # PatternOf(k))
                => \A k \in PatternKeys : c[t + 1].t \notin Stamps(Bucket(labels, k))

\* a run that records one turn in a bucket and has another turn, from down to
\* up or from up to down, that it records nowhere
C10_Witness ==
    /\ TurnsDone
    /\ Sufficient
    /\ ~AllBucketsEmpty(labels)
    /\ LET c == Cleaned
       IN \E t \in Interior(c) : PairAt(c, t) \in {<<"down", "up">>, <<"up", "down">>}

\* ------------------------------------------------------------------ C4
AllPresent == \A i \in 1..Len(r) : ~r[i].na

StrictlyIncreasing == \A i \in 1..(Len(r) - 1) : r[i].v < r[i + 1].v

OneSigned == (\A i \in 1..Len(r) : r[i].v >= 0) \/ (\A i \in 1..Len(r) : r[i].v <= 0)

\* C4 as stated: on every strictly increasing series of 20 present points, of
\* any sign, the default parameters give four empty buckets.
C4_AsStated ==
    (TurnsDone /\ Len(r) = MonoLen /\ AllPresent /\ StrictlyIncreasing) => AllBucketsEmpty(labels)

\* C4 amended: on every strictly increasing series of 20 present points whose
\* values do not change sign (none negative, or none positive) the default
\* parameters give four empty buckets.
C4_OneSignedMonotoneEmpty ==
    (TurnsDone /\ Len(r) = MonoLen /\ AllPresent /\ StrictlyIncreasing /\ OneSigned)
        => AllBucketsEmpty(labels)

\* a non-negative increasing run that starts at 0, so that the sign test holds
\* at its first interior position with a step of at least th_h, and that
\* still records nothing
C4_Witness ==
    /\ TurnsDone
    /\ Len(r) = MonoLen /\ AllPresent /\ StrictlyIncreasing /\ OneSigned
    /\ \E t \in Interior(Cleaned) : TurnAt(Cleaned, t)
    /\ AllBucketsEmpty(labels)

====
